---- MODULE Spec2Model ----
(***************************************************************************)
(* Model of rj_gameplay/tactic/basic_seek.py: the BasicSeek tactic.        *)
(*                                                                         *)
(* Lengths are fixed-point numbers in units of 1/16 m, so that the         *)
(* divisions by 4 and by 2 of the source are exact on the fields used      *)
(* here.  Python's 0-based index k is the 1-based index k+1.               *)
(***************************************************************************)
EXTENDS Integers, Sequences, FiniteSets, TLC

VARIABLES
    used_regions,     \* self._used_regions
    num_seekers,      \* self._num_seekers
    role_requests,    \* self._role_requests
    assigned_robots,  \* self.assigned_robots
    assigned_roles,   \* self.assigned_roles
    constructed,      \* whether __init__ returned (FALSE: it raised)
    ret,              \* the last call on the tactic and what it returned
    ticks,            \* history: number of tick calls so far
    same_roster,      \* history: every tick so far saw the current roster
    ctor_ws           \* history: the world state __init__ was given

vars == <<used_regions, num_seekers, role_requests, assigned_robots,
          assigned_roles, constructed, ret, ticks, same_roster, ctor_ws>>

----------------------------------------------------------------------------
(* Bounds and input sets *)

\* the literal 1 of the region bounds, in units of 1/16 m
One == 16

\* largest num_seekers given to the constructor (the formation has 5 regions)
MaxSeekers == 6

\* number of tick calls explored
MaxTicks == 2

\* the orders in which the resolver hands out robots (shirt numbers)
RobotOrders == { <<7, 3, 5, 1, 4>>, <<3, 7, 1, 5, 4>> }

Robot(id) == [id |-> id]

Rosters ==
    UNION { { [i \in 1..k |-> Robot(o[i])] : k \in 0..Len(o) } :
            o \in RobotOrders }

RobotIds == UNION { {o[i] : i \in DOMAIN o} : o \in RobotOrders }

\* 9 m x 6 m field of the documentation's scenario
ScenarioField ==
    [ length_m |-> 144, width_m |-> 96,
      def_area_x_left_coord |-> 24, def_area_x_right_coord |-> 120,
      bot_left_field_loc |-> <<0, 0>>, bot_right_field_loc |-> <<144, 0>>,
      center_field_loc |-> <<72, 48>>, center_diameter_m |-> 8 ]

\* 9 m x 6 m field with x centred on the goal line's middle
CentredField ==
    [ length_m |-> 144, width_m |-> 96,
      def_area_x_left_coord |-> -16, def_area_x_right_coord |-> 16,
      bot_left_field_loc |-> <<-48, 0>>, bot_right_field_loc |-> <<48, 0>>,
      center_field_loc |-> <<0, 72>>, center_diameter_m |-> 16 ]

Fields == { ScenarioField, CentredField }

\* a field length x width with its lower left corner at (xleft, 0), the
\* penalty box on the middle half of the width, the centre mark in the middle
GeomField(length, xleft, width, diameter) ==
    [ length_m |-> length, width_m |-> width,
      def_area_x_left_coord |-> xleft + width \div 4,
      def_area_x_right_coord |-> xleft + width - width \div 4,
      bot_left_field_loc |-> <<xleft, 0>>,
      bot_right_field_loc |-> <<xleft + width, 0>>,
      center_field_loc |-> <<xleft + width \div 2, length \div 2>>,
      center_diameter_m |-> diameter ]

\* well-formed fields from 0.5 m to 9 m long, 2 m or 6 m wide
GeomFields ==
    Fields \cup
    { GeomField(length, xleft, width, diameter) :
        length \in {8, 16, 64, 144}, xleft \in {-48, 0},
        width \in {32, 96}, diameter \in {8, 16} }

\* the robots whose seeker reports done in a world state
DoneSets == { {}, {7, 5, 4} }

\* the robots whose seeker's tick raises in a world state
FailSets == { {3}, {5, 4} }

\* world states in which every role's tick returns
WorldStates == [ field : Fields, done : DoneSets, fail : {{}} ]

\* world states in which some role's tick raises
FailingWorldStates == [ field : {ScenarioField}, done : {{}}, fail : FailSets ]

\* at construction no seeker exists yet, so none is done
ConstructionWorldStates == { w \in WorldStates : w.done = {} }

----------------------------------------------------------------------------
(* Collaborators: rj_gameplay.role.seeker and stp.role.cost *)

SeekerRole(robot, region) ==
    [kind |-> "SeekerRole", robot |-> robot, region |-> region]

PickClosestToPoint(point) ==
    [cost |-> "PickClosestToPoint", target_point |-> point]

\* role.tick(world_state): the intent is an opaque payload
role_tick(role, world_state) ==
    [seek |-> role.region, robot_id |-> role.robot.id,
     field |-> world_state.field]

\* whether role.tick(world_state) raises instead of returning an intent
role_tick_raises(role, world_state) == role.robot.id \in world_state.fail

\* role.is_done(world_state)
role_is_done(role, world_state) == role.robot.id \in world_state.done

----------------------------------------------------------------------------
(* BasicSeek.get_x_formation *)

\* the formation with the near band first and the far band last
get_x_formation_near_first(world_state) ==
    LET field == world_state.field
        y_quarter == field.length_m \div 4
        y_3quarter == field.length_m - y_quarter
        field_y == field.length_m
        box_xright == field.def_area_x_right_coord
        box_xleft == field.def_area_x_left_coord
        field_xleft == field.bot_left_field_loc[1]
        field_xright == field.bot_right_field_loc[1]
        center_xleft == field.center_field_loc[1] - field.center_diameter_m
        center_xright == field.center_field_loc[1] + field.center_diameter_m
        center_yup == field.center_field_loc[2] + field.center_diameter_m
        center_ydown == field.center_field_loc[1] - field.center_diameter_m
    IN  << <<field_xleft, y_quarter, box_xleft, One>>,
           <<box_xright, y_quarter, field_xright, One>>,
           <<center_xleft, center_yup, center_xright, center_ydown>>,
           <<field_xleft, field_y - One, box_xleft, y_3quarter>>,
           <<box_xright, field_y - One, field_xright, y_3quarter>> >>

get_x_formation(world_state) ==
    LET field == world_state.field
        y_quarter == field.length_m \div 4
        y_3quarter == field.length_m - y_quarter
        field_y == field.length_m
        box_xright == field.def_area_x_right_coord
        box_xleft == field.def_area_x_left_coord
        field_xleft == field.bot_left_field_loc[1]
        field_xright == field.bot_right_field_loc[1]
        center_xleft == field.center_field_loc[1] - field.center_diameter_m
        center_xright == field.center_field_loc[1] + field.center_diameter_m
        center_yup == field.center_field_loc[2] + field.center_diameter_m
        center_ydown == field.center_field_loc[1] - field.center_diameter_m
    IN  << <<field_xleft, field_y - One, box_xleft, y_3quarter>>,
           <<box_xright, field_y - One, field_xright, y_3quarter>>,
           <<center_xleft, center_yup, center_xright, center_ydown>>,
           <<field_xleft, y_quarter, box_xleft, One>>,
           <<box_xright, y_quarter, field_xright, One>> >>

\* the sums of the bounds, not halved
region_centroid_unhalved(my_region) ==
    << my_region[1] + my_region[3], my_region[2] + my_region[4] >>

region_centroid(my_region) ==
    << (my_region[1] + my_region[3]) \div 2,
       (my_region[2] + my_region[4]) \div 2 >>

----------------------------------------------------------------------------
(* BasicSeek.__init__ *)

\* the request loop with the region of the NEXT index taken for request i
RECURSIVE request_loop_shifted(_, _, _, _, _)
request_loop_shifted(formation, n, i, regions, requests) ==
    IF i >= n
    THEN [used_regions |-> regions, role_requests |-> requests,
          raised |-> "none"]
    ELSE IF i + 1 >= Len(formation)
    THEN [used_regions |-> regions, role_requests |-> requests,
          raised |-> "IndexError"]
    ELSE LET my_region == formation[i + 2]
             centroid == region_centroid(my_region)
         IN  request_loop_shifted(formation, n, i + 1,
                 Append(regions, my_region),
                 Append(requests,
                        <<PickClosestToPoint(centroid), "SeekerRole">>))

\* the request loop ending quietly once the formation is used up
RECURSIVE request_loop_clamped(_, _, _, _, _)
request_loop_clamped(formation, n, i, regions, requests) ==
    IF i >= n \/ i >= Len(formation)
    THEN [used_regions |-> regions, role_requests |-> requests,
          raised |-> "none"]
    ELSE LET my_region == formation[i + 1]
             centroid == region_centroid(my_region)
         IN  request_loop_clamped(formation, n, i + 1,
                 Append(regions, my_region),
                 Append(requests,
                        <<PickClosestToPoint(centroid), "SeekerRole">>))

\* for i in range(self._num_seekers): ... ; i is the 0-based loop index
RECURSIVE request_loop(_, _, _, _, _)
request_loop(formation, n, i, regions, requests) ==
    IF i >= n
    THEN [used_regions |-> regions, role_requests |-> requests,
          raised |-> "none"]
    ELSE IF i >= Len(formation)
    THEN [used_regions |-> regions, role_requests |-> requests,
          raised |-> "IndexError"]
    ELSE LET my_region == formation[i + 1]
             centroid == region_centroid(my_region)
         IN  request_loop(formation, n, i + 1,
                 Append(regions, my_region),
                 Append(requests,
                        <<PickClosestToPoint(centroid), "SeekerRole">>))

\* the fields of the object when __init__ ends, normally or by raising
BasicSeek(world_state, n) ==
    request_loop(get_x_formation(world_state), n, 0, <<>>, <<>>)

Init ==
    \E world_state \in ConstructionWorldStates, n \in 0..MaxSeekers :
        LET self == BasicSeek(world_state, n)
        IN  /\ used_regions = self.used_regions
            /\ num_seekers = n
            /\ role_requests = self.role_requests
            /\ assigned_robots = <<>>
            /\ assigned_roles = <<>>
            /\ constructed = (self.raised = "none")
            /\ ret = [op |-> "none"]
            /\ ticks = 0
            /\ same_roster = TRUE
            /\ ctor_ws = world_state

----------------------------------------------------------------------------
(* The resolver: stp.tactic.Tactic.set_assigned_robots *)

set_assigned_robots(robots) ==
    /\ constructed
    /\ assigned_robots' = robots
    /\ same_roster' = (ticks = 0 \/ (same_roster /\ robots = assigned_robots))
    /\ ret' = [op |-> "set_assigned_robots"]
    /\ UNCHANGED <<used_regions, num_seekers, role_requests, assigned_roles,
                   constructed, ticks, ctor_ws>>

----------------------------------------------------------------------------
(* BasicSeek.init_roles *)

\* for i, robot in enumerate(self.assigned_robots): ... ; i is 0-based
RECURSIVE init_roles_from(_, _, _, _)
init_roles_from(robots, regions, i, roles) ==
    IF i >= Len(robots)
    THEN [assigned_roles |-> roles, raised |-> "none", at |-> i]
    ELSE IF i >= Len(role_requests) \/ i >= Len(regions)
    THEN [assigned_roles |-> roles, raised |-> "IndexError", at |-> i]
    ELSE LET robot == robots[i + 1]
             role == role_requests[i + 1][2]
             my_region == regions[i + 1]
         IN  init_roles_from(robots, regions, i + 1,
                 IF role = "SeekerRole"
                 THEN Append(roles, SeekerRole(robot, my_region))
                 ELSE roles)

Reverse(s) == [i \in 1..Len(s) |-> s[Len(s) + 1 - i]]

\* binds the roster back to front
init_roles_reversed(world_state) ==
    init_roles_from(Reverse(assigned_robots), used_regions, 0, assigned_roles)

\* derives the regions again from the tick's world state
init_roles_recomputed(world_state) ==
    init_roles_from(assigned_robots, get_x_formation(world_state), 0,
                    assigned_roles)

\* checks the roster against the requests before binding any role
init_roles_checked(world_state) ==
    IF Len(assigned_robots) > Len(role_requests)
    THEN [assigned_roles |-> assigned_roles, raised |-> "IndexError",
          at |-> Len(role_requests)]
    ELSE init_roles_from(assigned_robots, used_regions, 0, assigned_roles)

init_roles(world_state) ==
    init_roles_from(assigned_robots, used_regions, 0, assigned_roles)

----------------------------------------------------------------------------
(* BasicSeek.tick *)

needs_init_always == TRUE

\* binds again whenever the roster no longer matches the bound robots
needs_init_on_roster_change ==
    \/ Len(assigned_roles) # Len(role_requests)
    \/ [i \in 1..Len(assigned_roles) |-> assigned_roles[i].robot]
            # assigned_robots

\* if len(self.assigned_roles) != len(self._role_requests)
needs_init == Len(assigned_roles) # Len(role_requests)

\* pairs in reverse role order
tick_roles_reversed(roles, world_state) ==
    [i \in 1..Len(roles) |->
        <<roles[Len(roles) + 1 - i].robot.id,
          role_tick(roles[Len(roles) + 1 - i], world_state)>>]

\* [(role.robot.id, role.tick(world_state)) for role in self.assigned_roles]
tick_roles(roles, world_state) ==
    [i \in 1..Len(roles) |->
        <<roles[i].robot.id, role_tick(roles[i], world_state)>>]

\* a comprehension that drops the roles whose tick raises
tick_outcome_skipping(roles, world_state) ==
    LET kept == SelectSeq(roles,
                    LAMBDA role : ~ role_tick_raises(role, world_state))
    IN  [raised |-> "none", val |-> tick_roles(kept, world_state),
         ticked |-> Len(roles)]

\* the comprehension of the return statement: roles are ticked in order and
\* the first tick that raises ends it; ticked counts the roles whose tick
\* was called
tick_outcome(roles, world_state) ==
    LET failing == { i \in 1..Len(roles) :
                        role_tick_raises(roles[i], world_state) }
    IN  IF failing = {}
        THEN [raised |-> "none", val |-> tick_roles(roles, world_state),
              ticked |-> Len(roles)]
        ELSE [raised |-> "RoleTickError", val |-> <<>>,
              ticked |-> CHOOSE i \in failing : \A j \in failing : i <= j]

tick(world_state) ==
    /\ constructed
    /\ ticks < MaxTicks
    /\ LET bound == IF needs_init
                    THEN init_roles(world_state)
                    ELSE [assigned_roles |-> assigned_roles,
                          raised |-> "none", at |-> 0]
           outcome == tick_outcome(bound.assigned_roles, world_state)
       IN  /\ assigned_roles' = bound.assigned_roles
           /\ ret' = IF bound.raised # "none"
                     THEN [op |-> "tick", world_state |-> world_state,
                           raised |-> bound.raised, at |-> bound.at,
                           val |-> <<>>, ticked |-> 0]
                     ELSE [op |-> "tick", world_state |-> world_state,
                           raised |-> outcome.raised, at |-> bound.at,
                           val |-> outcome.val, ticked |-> outcome.ticked]
    /\ ticks' = ticks + 1
    /\ UNCHANGED <<used_regions, num_seekers, role_requests, assigned_robots,
                   constructed, same_roster, ctor_ws>>

----------------------------------------------------------------------------
(* BasicSeek.is_done *)

any_done(roles, world_state) ==
    \E i \in 1..Len(roles) : role_is_done(roles[i], world_state)

\* all([role.is_done(world_state) for role in self.assigned_roles])
all_done(roles, world_state) ==
    \A i \in 1..Len(roles) : role_is_done(roles[i], world_state)

\* is_done binding the roles first, as tick does
is_done_binding(world_state) ==
    /\ constructed
    /\ LET bound == IF needs_init
                    THEN init_roles(world_state)
                    ELSE [assigned_roles |-> assigned_roles,
                          raised |-> "none", at |-> 0]
       IN  /\ assigned_roles' = bound.assigned_roles
           /\ ret' = [op |-> "is_done", world_state |-> world_state,
                      raised |-> bound.raised,
                      val |-> all_done(bound.assigned_roles, world_state)]
    /\ UNCHANGED <<used_regions, num_seekers, role_requests, assigned_robots,
                   constructed, ticks, same_roster, ctor_ws>>

is_done(world_state) ==
    /\ constructed
    /\ ret' = [op |-> "is_done", world_state |-> world_state,
               raised |-> "none",
               val |-> all_done(assigned_roles, world_state)]
    /\ UNCHANGED <<used_regions, num_seekers, role_requests, assigned_robots,
                   assigned_roles, constructed, ticks, same_roster, ctor_ws>>

----------------------------------------------------------------------------

Next ==
    \/ \E robots \in Rosters : set_assigned_robots(robots)
    \/ \E world_state \in WorldStates : tick(world_state)
    \/ \E world_state \in WorldStates : is_done(world_state)

Spec == Init /\ [][Next]_vars

----------------------------------------------------------------------------
(* The tactic over the well-formed fields, staffed in full and driven with *)
(* the world state it was constructed from                                 *)

InitGeom ==
    \E field \in GeomFields, n \in 0..MaxSeekers :
        LET world_state == [field |-> field, done |-> {}, fail |-> {}]
            self == BasicSeek(world_state, n)
        IN  /\ used_regions = self.used_regions
            /\ num_seekers = n
            /\ role_requests = self.role_requests
            /\ assigned_robots = <<>>
            /\ assigned_roles = <<>>
            /\ constructed = (self.raised = "none")
            /\ ret = [op |-> "none"]
            /\ ticks = 0
            /\ same_roster = TRUE
            /\ ctor_ws = world_state

NextGeom ==
    \/ \E robots \in { r \in Rosters : Len(r) = num_seekers } :
          set_assigned_robots(robots)
    \/ tick(ctor_ws)
    \/ is_done(ctor_ws)

SpecGeom == InitGeom /\ [][NextGeom]_vars

----------------------------------------------------------------------------
(* The tactic with roles whose tick may raise *)

NextFail ==
    \/ \E robots \in Rosters : set_assigned_robots(robots)
    \/ \E world_state \in WorldStates \cup FailingWorldStates :
          tick(world_state)
    \/ \E world_state \in WorldStates : is_done(world_state)

SpecFail == Init /\ [][NextFail]_vars

----------------------------------------------------------------------------
(* Properties *)

\* the formation computed from the constructor's world state
ctor_formation == get_x_formation(ctor_ws)

\* the state right after a tick call
after_tick == ret.op = "tick"

\* the state right after an is_done call
after_is_done == ret.op = "is_done"

\* C1: when the first tick sees a roster of exactly num_seekers robots, it
\* leaves exactly num_seekers roles, and role i holds robot i of the roster
\* and the region reserved for request i, which is region i of the formation
\* computed at construction.
C1_BindRoundTrip ==
    (after_tick /\ ticks = 1 /\ Len(assigned_robots) = num_seekers) =>
        /\ Len(assigned_roles) = num_seekers
        /\ \A i \in 1..num_seekers :
              /\ assigned_roles[i].robot = assigned_robots[i]
              /\ assigned_roles[i].region = used_regions[i]
              /\ used_regions[i] = ctor_formation[i]

C1_Witness ==
    /\ after_tick /\ ticks = 1
    /\ num_seekers = 5
    /\ Len(assigned_robots) = 5 /\ assigned_robots[1].id = 3
    /\ Len(assigned_roles) = 5
    /\ assigned_roles[5].region = ctor_formation[5]

\* C2: when every tick so far saw the same roster of exactly num_seekers
\* robots, a tick returns exactly num_seekers pairs, pair i carrying the id of
\* robot i of the roster and the intent of the role seeking region i.
C2_TickPairsInRoleOrder ==
    (after_tick /\ same_roster /\ Len(assigned_robots) = num_seekers) =>
        /\ ret.raised = "none"
        /\ Len(ret.val) = num_seekers
        /\ \A i \in 1..num_seekers :
              /\ ret.val[i][1] = assigned_robots[i].id
              /\ ret.val[i][2] =
                    role_tick(SeekerRole(assigned_robots[i], used_regions[i]),
                              ret.world_state)

C2_Witness ==
    /\ after_tick /\ same_roster /\ ticks = 2
    /\ num_seekers = 2
    /\ assigned_robots = <<Robot(7), Robot(3)>>
    /\ Len(ret.val) = 2
    /\ ret.val[1][1] = 7 /\ ret.val[1][2].seek = ctor_formation[1]
    /\ ret.val[2][1] = 3 /\ ret.val[2][2].seek = ctor_formation[2]

\* C3: assigned_roles is populated at most once: once it holds roles, no
\* later call adds to it or changes it.
C3_PopulatedAtMostOnce ==
    [][assigned_roles # <<>> => assigned_roles' = assigned_roles]_vars

\* C4: a tick that directly follows a tick, the roster unchanged in between,
\* leaves assigned_roles as the first tick left it.
C4_BinderIdempotent ==
    [][(after_tick /\ ticks' = ticks + 1) =>
            assigned_roles' = assigned_roles]_vars

\* C5: no two roles of assigned_roles hold the region of the same request
\* index.
C5_RegionUsedOnce ==
    \A i, j \in 1..Len(assigned_roles) :
        i # j =>
            ~ \E k \in 1..Len(used_regions) :
                  /\ assigned_roles[i].region = used_regions[k]
                  /\ assigned_roles[j].region = used_regions[k]

\* C6: when every tick so far saw the same roster of fewer than num_seekers
\* robots, a tick raises nothing, leaves exactly one role per robot of the
\* roster, and returns that many pairs.
C6_PartialRosterTruncates ==
    (after_tick /\ same_roster /\ Len(assigned_robots) < num_seekers) =>
        /\ ret.raised = "none"
        /\ Len(assigned_roles) = Len(assigned_robots)
        /\ Len(assigned_roles) < num_seekers
        /\ Len(ret.val) = Len(assigned_robots)

\* the bound roles that are not done in a world state
roles_not_done(world_state) ==
    { i \in 1..Len(assigned_roles) :
        ~ role_is_done(assigned_roles[i], world_state) }

\* C7: is_done returns true exactly when no bound role is not done in the
\* world state it was given; without bound roles it returns true.
C7_IsDoneIsConjunction ==
    after_is_done =>
        /\ ret.val = (roles_not_done(ret.world_state) = {})
        /\ (assigned_roles = <<>> => ret.val = TRUE)

C7_Witness ==
    /\ after_is_done
    /\ ret.val = FALSE
    /\ Len(assigned_roles) >= 2
    /\ \E i \in 1..Len(assigned_roles) :
          role_is_done(assigned_roles[i], ret.world_state)

\* C8: a tactic constructed with num_seekers = 0 has no role request and
\* never a bound role; every tick returns the empty sequence and raises
\* nothing, and every is_done returns true, whatever the roster.
C8_ZeroSeekers ==
    num_seekers = 0 =>
        /\ role_requests = <<>>
        /\ used_regions = <<>>
        /\ assigned_roles = <<>>
        /\ (after_tick => ret.raised = "none" /\ ret.val = <<>>)
        /\ (after_is_done => ret.val = TRUE)

C8_Witness ==
    /\ num_seekers = 0
    /\ after_tick /\ ticks = 2
    /\ Len(assigned_robots) = 3
    /\ ret.val = <<>>

\* C9: for num_seekers in 1..5 there are, in every reachable state, exactly
\* num_seekers role requests and num_seekers reserved regions; request i is
\* a seeker request ranked by distance to the centroid of region i of the
\* formation, and region i of the formation is the one reserved for it.
C9_RequestsMatchRegions ==
    num_seekers \in 1..5 =>
        /\ constructed
        /\ Len(used_regions) = num_seekers
        /\ Len(role_requests) = num_seekers
        /\ \A i \in 1..num_seekers :
              /\ used_regions[i] = ctor_formation[i]
              /\ role_requests[i][1].target_point =
                    region_centroid(ctor_formation[i])
              /\ role_requests[i][2] = "SeekerRole"

C9_Witness ==
    /\ num_seekers = 5
    /\ Len(role_requests) = 5
    /\ used_regions[5] = ctor_formation[5]
    /\ ticks = 2
    /\ Len(assigned_roles) = 4

\* C10: no call changes used_regions or role_requests, and every role a call
\* adds to assigned_roles holds a region of the formation computed at
\* construction, whatever field the call's world state has.
C10_RegionsNeverRecomputed ==
    [][/\ used_regions' = used_regions
       /\ role_requests' = role_requests
       /\ \A i \in (Len(assigned_roles) + 1)..Len(assigned_roles') :
             assigned_roles'[i].region =
                ctor_formation[i - Len(assigned_roles)]]_vars

C10_Witness ==
    /\ after_tick /\ ticks = 1
    /\ ret.world_state.field # ctor_ws.field
    /\ Len(assigned_roles) = 3
    /\ assigned_roles[3].region = ctor_formation[3]
    /\ assigned_roles[3].region # get_x_formation(ret.world_state)[3]

\* the field the tactic was constructed on
ctor_field == ctor_ws.field

\* left_x, top_y, right_x and bottom_y of a region
left_x(region) == region[1]

top_y(region) == region[2]

right_x(region) == region[3]

bottom_y(region) == region[4]

\* the regions left and right of the penalty box
on_left_flank(region) ==
    /\ left_x(region) = ctor_field.bot_left_field_loc[1]
    /\ right_x(region) = ctor_field.def_area_x_left_coord

on_right_flank(region) ==
    /\ left_x(region) = ctor_field.def_area_x_right_coord
    /\ right_x(region) = ctor_field.bot_right_field_loc[1]

\* C11 as stated: the formation has 5 regions, left flank, right flank,
\* centre, left flank, right flank; the first two span the near band
\* [0, length/4] and the last two the far band [length - length/4, length].
C11_NearBandFirst ==
    LET quarter == ctor_field.length_m \div 4
        length == ctor_field.length_m
    IN  /\ Len(ctor_formation) = 5
        /\ num_seekers = 5 =>
              /\ \A i \in {1, 2} :
                    /\ bottom_y(used_regions[i]) = 0
                    /\ top_y(used_regions[i]) = quarter
              /\ \A i \in {4, 5} :
                    /\ bottom_y(used_regions[i]) = length - quarter
                    /\ top_y(used_regions[i]) = length

\* C11 amended: the formation has 5 regions, left flank, right flank, centre,
\* left flank, right flank; the first two span [length - length/4,
\* length - 1], the far band less a margin of 1, and the last two span
\* [1, length/4], the near band less a margin of 1.
C11_FarBandFirst ==
    LET quarter == ctor_field.length_m \div 4
        length == ctor_field.length_m
    IN  /\ Len(ctor_formation) = 5
        /\ \A i \in 1..Len(used_regions) : used_regions[i] = ctor_formation[i]
        /\ num_seekers = 5 =>
              /\ on_left_flank(used_regions[1])
              /\ on_right_flank(used_regions[2])
              /\ on_left_flank(used_regions[4])
              /\ on_right_flank(used_regions[5])
              /\ \A i \in {1, 2} :
                    /\ bottom_y(used_regions[i]) = length - quarter
                    /\ top_y(used_regions[i]) = length - One
              /\ \A i \in {4, 5} :
                    /\ bottom_y(used_regions[i]) = One
                    /\ top_y(used_regions[i]) = quarter

C11_Witness ==
    /\ num_seekers = 5 /\ Len(used_regions) = 5
    /\ ctor_field.length_m = 144
    /\ top_y(used_regions[1]) = 128 /\ bottom_y(used_regions[1]) = 108
    /\ top_y(used_regions[5]) = 36 /\ bottom_y(used_regions[5]) = 16
    /\ after_tick /\ Len(assigned_roles) = 5

\* C12: the centre region is the square around the centre mark (cx, cy) with
\* half-width the centre circle's diameter d: left cx - d, top cy + d,
\* right cx + d, bottom cy - d.
C12_CentreSquare ==
    Len(used_regions) >= 3 =>
        LET cx == ctor_field.center_field_loc[1]
            cy == ctor_field.center_field_loc[2]
            d == ctor_field.center_diameter_m
        IN  used_regions[3] = <<cx - d, cy + d, cx + d, cy - d>>

\* the flank requests issued: those of the regions other than the centre
flank_requests == (1..Len(role_requests)) \ {3}

\* whether a point lies in the field's bounding rectangle
in_field(point) ==
    /\ ctor_field.bot_left_field_loc[1] <= point[1]
    /\ point[1] <= ctor_field.bot_right_field_loc[1]
    /\ 0 <= point[2]
    /\ point[2] <= ctor_field.length_m

\* C13 as stated: on every well-formed field the centroid of every flank
\* region, the point a request ranks robots by, lies in the field's bounding
\* rectangle.
C13_CentroidsInField ==
    \A i \in flank_requests : in_field(role_requests[i][1].target_point)

\* C13 amended: on every well-formed field at least 4/7 m long the centroid
\* of every flank region lies in the field's bounding rectangle.
C13_CentroidsInLongField ==
    7 * ctor_field.length_m >= 4 * One =>
        \A i \in flank_requests : in_field(role_requests[i][1].target_point)

C13_Witness ==
    /\ ctor_field.length_m = One
    /\ Len(role_requests) = 5
    /\ \A i \in flank_requests : in_field(role_requests[i][1].target_point)
    /\ top_y(used_regions[1]) < bottom_y(used_regions[1])
    /\ after_tick

\* a step that is a tick call
tick_step == ticks' = ticks + 1

\* the bound roles whose tick raises in a world state
roles_raising(roles, world_state) ==
    { i \in 1..Len(roles) : role_tick_raises(roles[i], world_state) }

\* C14: when the tick of a bound role raises during a tactic tick, the tick
\* ends with that failure and no pair list, the roles are ticked in order up
\* to the first one that raises and no further, and assigned_roles stays as
\* the call's binding left it: unchanged if the counts matched, otherwise
\* extended by one role per roster robot.
C14_RoleFailurePropagates ==
    [][(/\ tick_step
        /\ ret'.raised # "IndexError"
        /\ roles_raising(assigned_roles', ret'.world_state) # {}) =>
           /\ ret'.raised = "RoleTickError"
           /\ ret'.val = <<>>
           /\ ret'.ticked \in roles_raising(assigned_roles', ret'.world_state)
           /\ \A i \in roles_raising(assigned_roles', ret'.world_state) :
                 ret'.ticked <= i
           /\ IF Len(assigned_roles) = Len(role_requests)
              THEN assigned_roles' = assigned_roles
              ELSE /\ Len(assigned_roles') =
                         Len(assigned_roles) + Len(assigned_robots)
                   /\ \A i \in 1..Len(assigned_robots) :
                         assigned_roles'[Len(assigned_roles) + i].robot =
                            assigned_robots[i]]_vars

C14_Witness ==
    /\ after_tick /\ ticks = 1
    /\ ret.raised = "RoleTickError" /\ ret.val = <<>>
    /\ assigned_robots = <<Robot(7), Robot(3), Robot(5)>>
    /\ Len(assigned_roles) = 3
    /\ ret.ticked = 2

\* C15: once a tick has been made and assigned_roles holds as many roles as
\* there are requests, no call changes assigned_roles, whatever the roster
\* has become, and every tick returns one pair per bound role carrying the
\* id of the robot bound to it.
C15_BoundIsAbsorbing ==
    [][(ticks >= 1 /\ Len(assigned_roles) = Len(role_requests)) =>
           /\ assigned_roles' = assigned_roles
           /\ tick_step =>
                 /\ ret'.raised = "none"
                 /\ Len(ret'.val) = Len(assigned_roles)
                 /\ \A i \in 1..Len(assigned_roles) :
                       ret'.val[i][1] = assigned_roles[i].robot.id]_vars

C15_Witness ==
    /\ after_tick /\ ticks = 2
    /\ num_seekers = 2 /\ Len(assigned_roles) = 2
    /\ assigned_roles[1].robot.id = 7 /\ assigned_roles[2].robot.id = 3
    /\ assigned_robots = <<Robot(3), Robot(7), Robot(1)>>
    /\ ret.val[1][1] = 7 /\ ret.val[2][1] = 3

\* C16: with num_seekers >= 1, a first tick on a roster longer than
\* num_seekers raises IndexError at roster index num_seekers, after binding
\* the first num_seekers robots, so it changes assigned_roles; and every tick
\* that finds num_seekers roles bound binds nothing, raises nothing and
\* returns num_seekers pairs.
C16_OverlongRoster ==
    [][tick_step =>
          /\ (ticks = 0 /\ num_seekers >= 1
                /\ Len(assigned_robots) > num_seekers) =>
                /\ ret'.raised = "IndexError"
                /\ ret'.at = num_seekers
                /\ ret'.val = <<>>
                /\ assigned_roles' # assigned_roles
                /\ Len(assigned_roles') = num_seekers
                /\ \A i \in 1..num_seekers :
                      /\ assigned_roles'[i].robot = assigned_robots[i]
                      /\ assigned_roles'[i].region = used_regions[i]
          /\ (ticks >= 1 /\ num_seekers >= 1
                /\ Len(assigned_roles) = num_seekers) =>
                /\ assigned_roles' = assigned_roles
                /\ ret'.raised = "none"
                /\ Len(ret'.val) = num_seekers]_vars

C16_Witness ==
    /\ after_tick /\ ticks = 2 /\ same_roster
    /\ num_seekers = 3 /\ Len(assigned_robots) = 4
    /\ ret.raised = "none" /\ Len(ret.val) = 3
    /\ assigned_roles[3].robot = assigned_robots[3]

\* C17: the rosters holding pairwise distinct robots, no robot id appears in
\* two pairs of a tick's result.
C17_NoAgentTwice ==
    (after_tick /\ ret.raised = "none") =>
        \A i, j \in 1..Len(ret.val) :
            i # j => ret.val[i][1] # ret.val[j][1]

\* C18: is_done changes neither assigned_roles, used_regions, role_requests
\* nor the roster, and before the first tick it returns true; a first tick
\* that follows an is_done, on a roster of num_seekers >= 1 robots, still
\* binds one role per robot.
C18_IsDoneIsPure ==
    [][/\ ret'.op = "is_done" =>
             /\ UNCHANGED <<assigned_roles, used_regions, role_requests,
                            assigned_robots>>
             /\ ticks = 0 => ret'.val = TRUE
       /\ (after_is_done /\ tick_step /\ ticks = 0 /\ num_seekers >= 1
              /\ Len(assigned_robots) = num_seekers) =>
             /\ Len(assigned_roles') = num_seekers
             /\ \A i \in 1..num_seekers :
                   assigned_roles'[i].robot = assigned_robots[i]]_vars

C18_Witness ==
    /\ after_is_done /\ ticks = 0
    /\ num_seekers = 3 /\ Len(assigned_robots) = 3
    /\ assigned_roles = <<>>
    /\ ret.val = TRUE

\* C19: with num_seekers > 5 the constructor raises once the 5 regions of
\* the formation are used up, 5 requests issued; no tactic results, so no
\* call is ever made on it.
C19_TooManySeekers ==
    num_seekers > 5 =>
        /\ ~ constructed
        /\ Len(role_requests) = 5
        /\ used_regions = ctor_formation
        /\ assigned_roles = <<>>
        /\ ret.op = "none"
        /\ ticks = 0

C19_Witness ==
    /\ num_seekers = 6
    /\ ~ constructed
    /\ Len(role_requests) = 5 /\ Len(used_regions) = 5

====
